---- MODULE Spec2Model ----
(***************************************************************************)
(* Model of src/server.py: the accessibility-tree extraction               *)
(* (get_center_point, extract_elements and its closure traverse), the      *)
(* tool get_screen_buttons_textarea that drives it, and type_text.         *)
(*                                                                         *)
(* Python strings are sequences of one-character strings.  A Python float  *)
(* is a record [num, den] standing for num/den with den a power of ten; a  *)
(* Python int is an Int.  Python lists live in `heap`, and a local names a *)
(* list by its index there, as a Python name holds a reference.            *)
(***************************************************************************)
EXTENDS Integers, Sequences, FiniteSets, TLC

None == "None"

(***************************************************************************)
(* Strings                                                                 *)
(***************************************************************************)
DigitChars == <<"0", "1", "2", "3", "4", "5", "6", "7", "8", "9">>

IsDigit(ch) == \E d \in 1..Len(DigitChars) : DigitChars[d] = ch

DigitVal(ch) == (CHOOSE d \in 1..Len(DigitChars) : DigitChars[d] = ch) - 1

\* s[i .. i+Len(sep)-1] = sep
MatchAt(s, sep, i) ==
    /\ i + Len(sep) - 1 <= Len(s)
    /\ \A k \in 1..Len(sep) : s[i + k - 1] = sep[k]

\* str.split(sep): cut at every non-overlapping occurrence of sep, scanning
\* from the left; always yields at least one piece.
RECURSIVE Split(_, _)
Split(s, sep) ==
    LET hits == {i \in 1..Len(s) : MatchAt(s, sep, i)}
    IN  IF hits = {} THEN <<s>>
        ELSE LET i == CHOOSE h \in hits : \A g \in hits : h <= g
             IN  <<SubSeq(s, 1, i - 1)>> \o Split(SubSeq(s, i + Len(sep), Len(s)), sep)

\* float() ignores surrounding whitespace
RECURSIVE Strip(_)
Strip(s) ==
    IF s = <<>> THEN s
    ELSE IF Head(s) = " " THEN Strip(Tail(s))
    ELSE IF s[Len(s)] = " " THEN Strip(SubSeq(s, 1, Len(s) - 1))
    ELSE s

RECURSIVE DigitsValue(_)
DigitsValue(s) ==
    IF s = <<>> THEN 0 ELSE 10 * DigitsValue(SubSeq(s, 1, Len(s) - 1)) + DigitVal(s[Len(s)])

RECURSIVE Pow10(_)
Pow10(k) == IF k = 0 THEN 1 ELSE 10 * Pow10(k - 1)

\* float(tok) for decimal literals: [sign] digits [. digits], with at least one
\* digit.  ok = FALSE stands for ValueError.  (The other spellings float()
\* takes, an exponent, inf, nan, need letters no input here has.)
ParseFloat(tok) ==
    LET t      == Strip(tok)
        signed == t # <<>> /\ Head(t) \in {"-", "+"}
        body   == IF signed THEN Tail(t) ELSE t
        dots   == {i \in 1..Len(body) : body[i] = "."}
        digs   == SelectSeq(body, IsDigit)
        wellformed ==
            /\ Cardinality(dots) <= 1
            /\ digs # <<>>
            /\ \A i \in 1..Len(body) : IsDigit(body[i]) \/ body[i] = "."
        frac   == IF dots = {} THEN 0 ELSE Len(body) - (CHOOSE i \in dots : TRUE)
        mag    == DigitsValue(digs)
    IN  IF wellformed
        THEN [ok |-> TRUE,
              num |-> IF signed /\ Head(t) = "-" THEN 0 - mag ELSE mag,
              den |-> Pow10(frac)]
        ELSE [ok |-> FALSE]

\* int + float -> float
AddIntFloat(n, f) == [num |-> n * f.den + f.num, den |-> f.den]

(***************************************************************************)
(* Accessibility trees                                                     *)
(*                                                                         *)
(* A tree is a function from node ids 1..n to node dicts; the root is node *)
(* 1 and `children` holds the ids of a node's children in their order.  A  *)
(* dict is a function from its keys; a key it lacks is not in its DOMAIN.  *)
(***************************************************************************)
MaxNodes == 3

SmallNodes == 2

Root == 1

\* dict.get(key, default)
Get(d, key, default) == IF key \in DOMAIN d THEN d[key] ELSE default

\* What a node of the input may look like: its role (None: no role key) and
\* its visible_bbox (absent, four coordinates, or three: a malformed box).
NodeKinds ==
    { [role |-> "AXButton",     box |-> "ok"],
      [role |-> "AXMenuButton", box |-> "ok"],
      [role |-> "AXTextArea",   box |-> "ok"],
      [role |-> "AXGroup",      box |-> "ok"],
      [role |-> None,           box |-> "absent"],
      [role |-> "AXTextArea",   box |-> "absent"],
      [role |-> "AXButton",     box |-> "bad"] }

\* Window-relative boxes, one per node id: odd and negative sums occur.
BoxOf(i) == <<10 * i - 15, 3 * i, 10 * i - 8, 4 * i + 4>>

BadBoxOf(i) == <<i, i, i + 1>>

Descriptions ==
    <<"element one", "element two", "element three", "element four",
      "element five", "element six">>

DescOf(i) == Descriptions[i]

RoleDescOf(role) ==
    CASE role = "AXButton"     -> "button"
      [] role = "AXMenuButton" -> "menu button"
      [] role = "AXTextArea"   -> "text entry area"
      [] OTHER                 -> "group"

MakeNode(kind, i, ch) ==
    LET r == IF kind.role = None THEN [name |-> DescOf(i)]
             ELSE [name |-> DescOf(i), role |-> kind.role,
                   role_description |-> RoleDescOf(kind.role), description |-> DescOf(i)]
        b == IF kind.box = "ok" THEN [visible_bbox |-> BoxOf(i)]
             ELSE IF kind.box = "bad" THEN [visible_bbox |-> BadBoxOf(i)]
             ELSE <<>>
        k == IF ch = <<>> THEN <<>> ELSE [children |-> ch]
    IN  r @@ b @@ k

\* xs with x put after its first k elements.
InsertAt(xs, k, x) == SubSeq(xs, 1, k) \o <<x>> \o SubSeq(xs, k + 1, Len(xs))

\* Every shape of a tree of nodes 1..n, as the function from a node to the
\* sequence of its children: node n hangs below any earlier node, at any
\* place among that node's children.
RECURSIVE ChildOrders(_)
ChildOrders(n) ==
    IF n = 1 THEN {<<<<>>>>}
    ELSE UNION { UNION { { Append([ch EXCEPT ![p] = InsertAt(ch[p], k, n)], <<>>)
                           : k \in 0..Len(ch[p]) }
                         : p \in 1..(n - 1) }
                 : ch \in ChildOrders(n - 1) }

\* The tree of shape ch whose node i is of kind ks[i]; o is the root's
\* absolute_position: <<s>> for the string s, <<>> for a root without the key.
MakeTree(ch, ks, o) ==
    [i \in DOMAIN ch |->
        IF i = Root /\ o # <<>>
        THEN MakeNode(ks[i], i, ch[i]) @@ [absolute_position |-> o[1]]
        ELSE MakeNode(ks[i], i, ch[i])]

Nodes(tree) == DOMAIN tree

Children(tree, n) == Get(tree[n], "children", <<>>)

(***************************************************************************)
(* get_center_point and extract_elements                                   *)
(***************************************************************************)
VARIABLES
    calls,      \* call id -> the frame of that extract_elements call
    heap,       \* the Python lists allocated so far, by reference
    tool,       \* the frame of the get_screen_buttons_textarea call
    effects,    \* the calls made to the collaborators, in order
    typing,     \* the frame of the type_text call
    keys        \* the pyautogui keyboard calls made, in order

extractVars == <<calls, heap>>

toolVars == <<tool, effects>>

typeVars == <<typing, keys>>

vars == <<calls, heap, tool, effects, typing, keys>>

\* get_center_point(bbox): the unpacking of line 15 raises unless bbox holds
\* exactly four values.
GetCenterPointRaises(bbox) == Len(bbox) # 4

\* A slip: half the extent of the box instead of its middle.
GetCenterPoint_HalfExtent(bbox) ==
    <<(bbox[3] - bbox[1]) \div 2, (bbox[4] - bbox[2]) \div 2>>

GetCenterPoint(bbox) ==
    LET x1 == bbox[1]
        y1 == bbox[2]
        x2 == bbox[3]
        y2 == bbox[4]
    IN  <<(x1 + x2) \div 2, (y1 + y2) \div 2>>

\* A slip: the menu button forgotten.
IsButton_OnlyAXButton(node) ==
    Get(node, "role", None) = "AXButton" /\ "visible_bbox" \in DOMAIN node

\* The two conditions of traverse, lines 34 and 43.
IsButton(node) ==
    Get(node, "role", None) \in {"AXButton", "AXMenuButton"} /\ "visible_bbox" \in DOMAIN node

IsTextArea(node) ==
    ~IsButton(node) /\ Get(node, "role", None) = "AXTextArea" /\ "visible_bbox" \in DOMAIN node

\* Does visiting the node raise?  Only a node of one of the two branches
\* reaches get_center_point.
EmitRaises(node) ==
    IF IsButton(node) THEN GetCenterPointRaises(node.visible_bbox)
    ELSE IF IsTextArea(node) THEN GetCenterPointRaises(node.visible_bbox)
    ELSE FALSE

\* The dict appended at lines 36-40 and 45-49.
Element(node, window) ==
    LET center == GetCenterPoint(node.visible_bbox)
    IN  [center |-> <<AddIntFloat(center[1], window[1]), AddIntFloat(center[2], window[2])>>,
         description |-> Get(node, "description", None),
         role_description |-> Get(node, "role_description", None)]

\* Lines 28-30: the first two comma-separated pieces, each through float().
OriginPieces(tree) == Split(tree[Root].absolute_position, <<",">>)

\* KeyError at line 28, IndexError at line 29 or 30, ValueError from float().
OriginRaises(tree) ==
    IF "absolute_position" \notin DOMAIN tree[Root] THEN TRUE
    ELSE IF Len(OriginPieces(tree)) < 2 THEN TRUE
    ELSE IF ~ParseFloat(OriginPieces(tree)[1]).ok THEN TRUE
    ELSE ~ParseFloat(OriginPieces(tree)[2]).ok

WindowOf(tree) ==
    LET wx == ParseFloat(OriginPieces(tree)[1])
        wy == ParseFloat(OriginPieces(tree)[2])
    IN  <<[num |-> wx.num, den |-> wx.den], [num |-> wy.num, den |-> wy.den]>>

\* At most NumCalls calls of extract_elements are in flight or over.
NumCalls == 2

CallIds == 1..NumCalls

\* A call that has not yet run its first line.
NewCall(tree) ==
    [pc |-> "start", tree |-> tree, buttons |-> 0, text_areas |-> 0,
     window |-> <<>>, stack |-> <<>>, visited |-> <<>>]

\* A slip: one buttons list for all calls, as a module-level list would be.
NewButtons_Shared(h) == 1

\* Lines 25-26: two new lists.
NewButtons(h) == Len(h) + 1

NewTextAreas(h) == Len(h) + 2

Enter(c) ==
    /\ c \in DOMAIN calls
    /\ calls[c].pc = "start"
    /\ heap' = heap \o <<<<>>, <<>>>>
    /\ calls' = [calls EXCEPT ![c].pc = "origin",
                              ![c].buttons = NewButtons(heap),
                              ![c].text_areas = NewTextAreas(heap)]
    /\ UNCHANGED <<toolVars, typeVars>>

\* A slip: an origin that does not parse is taken for (0, 0).
ParseOrigin_DefaultZero(c) ==
    /\ c \in DOMAIN calls
    /\ calls[c].pc = "origin"
    /\ calls' = [calls EXCEPT ![c].pc = "traverse",
                              ![c].window =
                                  IF OriginRaises(calls[c].tree)
                                  THEN <<[num |-> 0, den |-> 1], [num |-> 0, den |-> 1]>>
                                  ELSE WindowOf(calls[c].tree),
                              ![c].stack = <<Root>>]
    /\ UNCHANGED <<heap, toolVars, typeVars>>

\* Lines 28-30, then the call of line 56.
ParseOrigin(c) ==
    /\ c \in DOMAIN calls
    /\ calls[c].pc = "origin"
    /\ ~OriginRaises(calls[c].tree)
    /\ calls' = [calls EXCEPT ![c].pc = "traverse",
                              ![c].window = WindowOf(calls[c].tree),
                              ![c].stack = <<Root>>]
    /\ UNCHANGED <<heap, toolVars, typeVars>>

ParseOriginRaise(c) ==
    /\ c \in DOMAIN calls
    /\ calls[c].pc = "origin"
    /\ OriginRaises(calls[c].tree)
    /\ calls' = [calls EXCEPT ![c].pc = "raised"]
    /\ UNCHANGED <<heap, toolVars, typeVars>>

\* One call of traverse(node), lines 32-54: the node on top of the stack is
\* visited and its children are pushed in their order, to be visited before
\* whatever was pending.
\* A slip: the children taken from the last to the first.
PushChildren_Reversed(tree, n, pending) ==
    [k \in 1..Len(Children(tree, n)) |->
        Children(tree, n)[Len(Children(tree, n)) + 1 - k]] \o pending

\* A slip: no descent below a node that emitted.
PushChildren_PruneEmitted(tree, n, pending) ==
    IF IsButton(tree[n]) THEN pending
    ELSE IF IsTextArea(tree[n]) THEN pending
    ELSE Children(tree, n) \o pending

PushChildren(tree, n, pending) == Children(tree, n) \o pending

Visit(c) ==
    LET f    == calls[c]
        n    == Head(f.stack)
        node == f.tree[n]
    IN  /\ c \in DOMAIN calls
        /\ f.pc = "traverse"
        /\ f.stack # <<>>
        /\ ~EmitRaises(node)
        /\ heap' = IF IsButton(node)
                   THEN [heap EXCEPT ![f.buttons] = Append(@, Element(node, f.window))]
                   ELSE IF IsTextArea(node)
                   THEN [heap EXCEPT ![f.text_areas] = Append(@, Element(node, f.window))]
                   ELSE heap
        /\ calls' = [calls EXCEPT ![c].stack = PushChildren(f.tree, n, Tail(f.stack)),
                                  ![c].visited = Append(f.visited, n)]
        /\ UNCHANGED <<toolVars, typeVars>>

\* get_center_point raises inside traverse: the exception leaves
\* extract_elements, nothing is returned.
VisitRaise(c) ==
    LET f    == calls[c]
        n    == Head(f.stack)
        node == f.tree[n]
    IN  /\ c \in DOMAIN calls
        /\ f.pc = "traverse"
        /\ f.stack # <<>>
        /\ EmitRaises(node)
        /\ calls' = [calls EXCEPT ![c].pc = "raised",
                                  ![c].visited = Append(f.visited, n)]
        /\ UNCHANGED <<heap, toolVars, typeVars>>

\* Line 57.
Return(c) ==
    /\ c \in DOMAIN calls
    /\ calls[c].pc = "traverse"
    /\ calls[c].stack = <<>>
    /\ calls' = [calls EXCEPT ![c].pc = "returned"]
    /\ UNCHANGED <<heap, toolVars, typeVars>>

\* What a returned call handed back: the two lists its names refer to.
ReturnedButtons(c) == heap[calls[c].buttons]

ReturnedTextAreas(c) == heap[calls[c].text_areas]

(***************************************************************************)
(* One call of extract_elements on any tree of at most MaxNodes nodes.     *)
(***************************************************************************)
\* "10,20"
MainOrigin == << <<"1", "0", ",", "2", "0">> >>

\* "-3.5, 7", "1,2,3", "5", "x,1", "4,", "", and a root without the key
OtherOrigins ==
    { << <<"-", "3", ".", "5", ",", " ", "7">> >>,
      << <<"1", ",", "2", ",", "3">> >>,
      << <<"5">> >>,
      << <<"x", ",", "1">> >>,
      << <<"4", ",">> >>,
      << <<>> >>,
      <<>> }

NoTool == [pc |-> "none"]

NoTyping == [pc |-> "none"]

\* One call, on any tree of at most MaxNodes nodes under the main origin or
\* on any tree of SmallNodes nodes under any other origin.
Init ==
    /\ heap = <<>>
    /\ tool = NoTool
    /\ effects = <<>>
    /\ typing = NoTyping
    /\ keys = <<>>
    /\ \/ \E n \in 1..MaxNodes : \E ch \in ChildOrders(n) :
              \E ks \in [1..n -> NodeKinds] :
                  calls = (1 :> NewCall(MakeTree(ch, ks, MainOrigin)))
       \/ \E ch \in ChildOrders(SmallNodes) :
              \E ks \in [1..SmallNodes -> NodeKinds] : \E o \in OtherOrigins :
                  calls = (1 :> NewCall(MakeTree(ch, ks, o)))

Step(c) ==
    \/ Enter(c)
    \/ ParseOrigin(c)
    \/ ParseOriginRaise(c)
    \/ Visit(c)
    \/ VisitRaise(c)
    \/ Return(c)

Next == \E c \in CallIds : Step(c)

Spec == Init /\ [][Next]_vars

(***************************************************************************)
(* Several calls of extract_elements, each on a tree of its own, their     *)
(* steps interleaved in any way; a call that starts after another has      *)
(* returned is a repeated call.                                            *)
(***************************************************************************)
\* Each call's tree has SmallNodes nodes of one of these kinds, in any shape.
ConcurrentKinds ==
    { [role |-> "AXButton",   box |-> "ok"],
      [role |-> "AXTextArea", box |-> "ok"] }

InitConcurrent ==
    /\ heap = <<>>
    /\ tool = NoTool
    /\ effects = <<>>
    /\ typing = NoTyping
    /\ keys = <<>>
    /\ \E chs \in [1..NumCalls -> ChildOrders(SmallNodes)] :
           \E ks \in [1..NumCalls -> ConcurrentKinds] :
               calls = [c \in 1..NumCalls |->
                           NewCall(MakeTree(chs[c], [i \in 1..SmallNodes |-> ks[c]],
                                            MainOrigin))]

NextConcurrent ==
    \E c \in CallIds :
        \/ Enter(c)
        \/ ParseOrigin(c)
        \/ Visit(c)
        \/ Return(c)

SpecConcurrent == InitConcurrent /\ [][NextConcurrent]_vars

(***************************************************************************)
(* get_screen_buttons_textarea                                             *)
(*                                                                         *)
(* A bundle id is the sequence of its dot-separated parts: split('.') is   *)
(* the sequence itself and [-1] its last part.                             *)
(***************************************************************************)
\* Lines 109-119.
valid_bundle_ids ==
    { <<"com", "apple", "Notes">>,
      <<"com", "apple", "VoiceMemos">>,
      <<"com", "apple", "Mail">>,
      <<"com", "apple", "reminders">>,
      <<"com", "apple", "Safari">>,
      <<"com", "apple", "Maps">>,
      <<"com", "apple", "Photos">>,
      <<"com", "apple", "Music">>,
      <<"com", "apple", "weather">> }

\* The ids a client may send: the allow-list and some outside it.
BundleIdInputs ==
    valid_bundle_ids \cup
        { <<"com", "apple", "Calculator">>,
          <<"com", "apple", "notes">>,
          <<"Notes">> }

\* A slip: the check of line 121 lets every id through.
IsValidBundleId_Any(bundle_id) == TRUE

\* Line 121.
IsValidBundleId(bundle_id) == bundle_id \in valid_bundle_ids

InvalidBundleError == [error |-> "Invalid bundle ID"]

ExceptionError == [error |-> "exception"]

\* The kinds of the nodes of the trees the tree provider hands over.
ProvidedKinds ==
    { [role |-> "AXButton",   box |-> "ok"],
      [role |-> "AXTextArea", box |-> "ok"],
      [role |-> None,         box |-> "absent"],
      [role |-> "AXButton",   box |-> "bad"] }

ProvidedOrigins == {MainOrigin} \cup OtherOrigins

\* Line 121-122.
RejectBundle ==
    /\ tool.pc = "check"
    /\ ~IsValidBundleId(tool.bundle_id)
    /\ tool' = [tool EXCEPT !.pc = "done", !.result = InvalidBundleError]
    /\ UNCHANGED <<effects, extractVars, typeVars>>

AcceptBundle ==
    /\ tool.pc = "check"
    /\ IsValidBundleId(tool.bundle_id)
    /\ tool' = [tool EXCEPT !.pc = "open"]
    /\ UNCHANGED <<effects, extractVars, typeVars>>

\* Lines 125-128: open -b bundle_id, then the sleep.
Launch ==
    /\ tool.pc = "open"
    /\ effects' = Append(effects, [op |-> "open", arg |-> tool.bundle_id])
    /\ tool' = [tool EXCEPT !.pc = "bundle"]
    /\ UNCHANGED <<extractVars, typeVars>>

\* Line 129.
GetAppBundle ==
    /\ tool.pc = "bundle"
    /\ effects' = Append(effects, [op |-> "get_app_bundle",
                                   arg |-> <<tool.bundle_id[Len(tool.bundle_id)]>>])
    /\ tool' = [tool EXCEPT !.pc = "tree"]
    /\ UNCHANGED <<extractVars, typeVars>>

\* Line 132: the tree provider returns some tree.
GetTreeScreenshot ==
    /\ tool.pc = "tree"
    /\ effects' = Append(effects, [op |-> "get_tree_screenshot",
                                   arg |-> <<tool.bundle_id[Len(tool.bundle_id)]>>])
    /\ \E ch \in ChildOrders(SmallNodes) : \E ks \in [1..SmallNodes -> ProvidedKinds] :
           \E o \in ProvidedOrigins :
               tool' = [tool EXCEPT !.pc = "extract", !.tree = <<MakeTree(ch, ks, o)>>]
    /\ UNCHANGED <<extractVars, typeVars>>

\* One of the three collaborator calls raises: lines 138-141.
CollaboratorRaise ==
    /\ tool.pc \in {"open", "bundle", "tree"}
    /\ tool' = [tool EXCEPT !.pc = "done", !.result = ExceptionError]
    /\ UNCHANGED <<effects, extractVars, typeVars>>

\* Line 134, through get_ui_elements (line 66): extract_elements is called.
GetUiElements ==
    /\ tool.pc = "extract"
    /\ calls' = (1 :> NewCall(tool.tree[1]))
    /\ tool' = [tool EXCEPT !.pc = "extracting"]
    /\ UNCHANGED <<effects, heap, typeVars>>

\* Line 136.
ReturnElements ==
    /\ tool.pc = "extracting"
    /\ calls[1].pc = "returned"
    /\ tool' = [tool EXCEPT !.pc = "done",
                            !.result = [im |-> "screenshot",
                                        buttons |-> ReturnedButtons(1),
                                        text_areas |-> ReturnedTextAreas(1)]]
    /\ UNCHANGED <<effects, extractVars, typeVars>>

\* Lines 138-141: extract_elements raised.
CatchExtractError ==
    /\ tool.pc = "extracting"
    /\ calls[1].pc = "raised"
    /\ tool' = [tool EXCEPT !.pc = "done", !.result = ExceptionError]
    /\ UNCHANGED <<effects, extractVars, typeVars>>

InitTool ==
    /\ heap = <<>>
    /\ calls = <<>>
    /\ effects = <<>>
    /\ typing = NoTyping
    /\ keys = <<>>
    /\ \E b \in BundleIdInputs :
           tool = [pc |-> "check", bundle_id |-> b, tree |-> <<>>, result |-> <<>>]

NextTool ==
    \/ RejectBundle
    \/ AcceptBundle
    \/ Launch
    \/ GetAppBundle
    \/ GetTreeScreenshot
    \/ CollaboratorRaise
    \/ GetUiElements
    \/ \E c \in CallIds : Step(c)
    \/ ReturnElements
    \/ CatchExtractError

SpecTool == InitTool /\ [][NextTool]_vars

(***************************************************************************)
(* type_text                                                               *)
(***************************************************************************)
MaxTextLen == 4

\* The characters of the texts tried: a letter, the backslash and the n.
TextChars == {"a", "\\", "n"}

TextInputs == UNION {[1..k -> TextChars] : k \in 0..MaxTextLen}

\* The separator of line 163: a backslash followed by n.
LineBreak == <<"\\", "n">>

EnterKey == <<"e", "n", "t", "e", "r">>

\* A slip: i < len(lines), enter after every line whatever the flag.
PressesEnter_EveryLine(i, n, press_enter_after) ==
    IF i < n THEN TRUE ELSE press_enter_after

\* The condition of line 167; i counts from 0.
PressesEnter(i, n, press_enter_after) ==
    IF i < n - 1 THEN TRUE ELSE press_enter_after

\* Line 163.
SplitLines ==
    /\ typing.pc = "split"
    /\ typing' = [typing EXCEPT !.pc = "typewrite", !.lines = Split(typing.text, LineBreak),
                                !.i = 0]
    /\ UNCHANGED <<keys, extractVars, toolVars>>

\* Line 165.
Typewrite ==
    /\ typing.pc = "typewrite"
    /\ typing.i < Len(typing.lines)
    /\ keys' = Append(keys, [op |-> "typewrite", arg |-> typing.lines[typing.i + 1]])
    /\ typing' = [typing EXCEPT !.pc = "enter"]
    /\ UNCHANGED <<extractVars, toolVars>>

\* Lines 167-168, and on to the next line.
PressEnter ==
    /\ typing.pc = "enter"
    /\ PressesEnter(typing.i, Len(typing.lines), typing.press_enter_after)
    /\ keys' = Append(keys, [op |-> "press", arg |-> EnterKey])
    /\ typing' = [typing EXCEPT !.pc = "typewrite", !.i = typing.i + 1]
    /\ UNCHANGED <<extractVars, toolVars>>

SkipEnter ==
    /\ typing.pc = "enter"
    /\ ~PressesEnter(typing.i, Len(typing.lines), typing.press_enter_after)
    /\ typing' = [typing EXCEPT !.pc = "typewrite", !.i = typing.i + 1]
    /\ UNCHANGED <<keys, extractVars, toolVars>>

\* Line 169.
TypeSuccess ==
    /\ typing.pc = "typewrite"
    /\ typing.i = Len(typing.lines)
    /\ typing' = [typing EXCEPT !.pc = "done", !.result = "Success"]
    /\ UNCHANGED <<keys, extractVars, toolVars>>

\* Lines 170-171: pyautogui raises in typewrite or press.
TypeRaise ==
    /\ \/ typing.pc = "typewrite" /\ typing.i < Len(typing.lines)
       \/ typing.pc = "enter" /\ PressesEnter(typing.i, Len(typing.lines), typing.press_enter_after)
    /\ typing' = [typing EXCEPT !.pc = "done", !.result = "Error"]
    /\ UNCHANGED <<keys, extractVars, toolVars>>

InitType ==
    /\ heap = <<>>
    /\ calls = <<>>
    /\ tool = NoTool
    /\ effects = <<>>
    /\ keys = <<>>
    /\ \E t \in TextInputs : \E flag \in BOOLEAN :
           typing = [pc |-> "split", text |-> t, press_enter_after |-> flag,
                     lines |-> <<>>, i |-> 0, result |-> None]

NextType ==
    \/ SplitLines
    \/ Typewrite
    \/ PressEnter
    \/ SkipEnter
    \/ TypeSuccess
    \/ TypeRaise

SpecType == InitType /\ [][NextType]_vars

(***************************************************************************)
(* Properties of one extraction                                            *)
(***************************************************************************)
Returned(c) == calls[c].pc = "returned"

Raised(c) == calls[c].pc = "raised"

HasRole(node, roles) == "role" \in DOMAIN node /\ node.role \in roles

HasBox(node) == "visible_bbox" \in DOMAIN node

\* The nodes the two lists are about.
ButtonNodes(tree) ==
    {n \in Nodes(tree) : HasRole(tree[n], {"AXButton", "AXMenuButton"}) /\ HasBox(tree[n])}

TextAreaNodes(tree) ==
    {n \in Nodes(tree) : HasRole(tree[n], {"AXTextArea"}) /\ HasBox(tree[n])}

\* Descriptions tell the nodes of one tree apart, so they tell which node an
\* entry came from.
EntriesOf(list, tree, n) ==
    {i \in 1..Len(list) : "description" \in DOMAIN tree[n] /\ list[i].description = tree[n].description}

NodeOf(entry, tree) ==
    CHOOSE n \in Nodes(tree) : "description" \in DOMAIN tree[n] /\ tree[n].description = entry.description

RECURSIVE Subtree(_, _)
Subtree(tree, n) ==
    {n} \cup UNION {Subtree(tree, Children(tree, n)[k]) : k \in 1..Len(Children(tree, n))}

\* a comes before b in pre-order: b is below a, or a lies below an earlier
\* child and b below a later child of the same node.
Precedes(tree, a, b) ==
    /\ a # b
    /\ \/ b \in Subtree(tree, a)
       \/ \E p \in Nodes(tree) : \E i, j \in 1..Len(Children(tree, p)) :
              /\ i < j
              /\ a \in Subtree(tree, Children(tree, p)[i])
              /\ b \in Subtree(tree, Children(tree, p)[j])

Depth2Chain(tree) ==
    /\ Len(Children(tree, Root)) = 1
    /\ Len(Children(tree, Children(tree, Root)[1])) = 1

\* C1: when extract_elements returns, a node with role AXButton or
\* AXMenuButton and a visible_bbox has exactly one entry in the buttons list
\* and none in text_areas, a node with role AXTextArea and a visible_bbox has
\* exactly one entry in text_areas and none in buttons, every other node has
\* no entry, and the lists hold nothing else.
C1_OneEntryPerQualifyingNode ==
    \A c \in DOMAIN calls : Returned(c) =>
        LET tree == calls[c].tree
            bs   == ReturnedButtons(c)
            ts   == ReturnedTextAreas(c)
        IN  /\ \A n \in Nodes(tree) :
                  /\ Cardinality(EntriesOf(bs, tree, n)) = IF n \in ButtonNodes(tree) THEN 1 ELSE 0
                  /\ Cardinality(EntriesOf(ts, tree, n)) = IF n \in TextAreaNodes(tree) THEN 1 ELSE 0
                  /\ ~(EntriesOf(bs, tree, n) # {} /\ EntriesOf(ts, tree, n) # {})
            /\ Len(bs) = Cardinality(ButtonNodes(tree))
            /\ Len(ts) = Cardinality(TextAreaNodes(tree))

\* A returned extraction of a tree with a menu button, a text area and a text
\* area without a box.
C1_Witness ==
    \E c \in DOMAIN calls :
        /\ Returned(c)
        /\ \E n \in Nodes(calls[c].tree) :
               HasRole(calls[c].tree[n], {"AXMenuButton"}) /\ HasBox(calls[c].tree[n])
        /\ \E n \in Nodes(calls[c].tree) :
               HasRole(calls[c].tree[n], {"AXTextArea"}) /\ ~HasBox(calls[c].tree[n])
        /\ Len(ReturnedButtons(c)) = 1
        /\ Len(ReturnedTextAreas(c)) = 1

Abs(x) == IF x < 0 THEN 0 - x ELSE x

\* floor(s / 2), from its definition
FloorHalf(s) == CHOOSE q \in (0 - Abs(s))..Abs(s) : 2 * q <= s /\ s < 2 * q + 2

\* The float f equals the integer n plus the number written in `piece`.
IsSumOf(f, n, piece) ==
    LET o == ParseFloat(piece)
    IN  f.num * o.den = (n * o.den + o.num) * f.den

\* C2: every entry of either returned list, from a node with box
\* (x1, y1, x2, y2) in a tree whose origin reads (originX, originY), has
\* center (floor((x1+x2)/2) + originX, floor((y1+y2)/2) + originY).
C2_CenterIsBoxCenterPlusOrigin ==
    \A c \in DOMAIN calls : Returned(c) =>
        LET tree   == calls[c].tree
            pieces == Split(tree[Root].absolute_position, <<",">>)
        IN  \A list \in {ReturnedButtons(c), ReturnedTextAreas(c)} :
                \A i \in 1..Len(list) :
                    LET box == tree[NodeOf(list[i], tree)].visible_bbox
                    IN  /\ IsSumOf(list[i].center[1], FloorHalf(box[1] + box[3]), pieces[1])
                        /\ IsSumOf(list[i].center[2], FloorHalf(box[2] + box[4]), pieces[2])

\* A returned entry of a box whose corner sum is odd and negative, under a
\* negative fractional origin.
C2_Witness ==
    \E c \in DOMAIN calls :
        /\ Returned(c)
        /\ \E i \in 1..Len(ReturnedButtons(c)) :
               LET box == calls[c].tree[NodeOf(ReturnedButtons(c)[i], calls[c].tree)].visible_bbox
               IN  /\ box[1] + box[3] < 0
                   /\ (box[1] + box[3]) % 2 = 1
                   /\ calls[c].window[1].num < 0
                   /\ calls[c].window[1].den > 1

\* C3: in each returned list the entries stand in pre-order of their nodes.
C3_ListsInPreOrder ==
    \A c \in DOMAIN calls : Returned(c) =>
        \A list \in {ReturnedButtons(c), ReturnedTextAreas(c)} :
            \A i, j \in 1..Len(list) :
                i < j => Precedes(calls[c].tree, NodeOf(list[i], calls[c].tree),
                                  NodeOf(list[j], calls[c].tree))

\* Three buttons returned: the root, then its first child, node 3, then its
\* second child, node 2.
C3_Witness ==
    \E c \in DOMAIN calls :
        /\ Returned(c)
        /\ Children(calls[c].tree, Root) = <<3, 2>>
        /\ Len(ReturnedButtons(c)) = 3
        /\ NodeOf(ReturnedButtons(c)[2], calls[c].tree) = 3

\* C4: when the traversal returns, every node of the tree was visited once,
\* the children of every node in their order, and every qualifying node has
\* its entry whatever its ancestors are.
C4_NoPruning ==
    \A c \in DOMAIN calls : Returned(c) =>
        LET tree == calls[c].tree
            vis  == calls[c].visited
        IN  /\ Len(vis) = Cardinality(Nodes(tree))
            /\ \A n \in Nodes(tree) : \E i \in 1..Len(vis) : vis[i] = n
            /\ \A p \in Nodes(tree) : \A k, l \in 1..Len(Children(tree, p)) :
                   k < l => \E i, j \in 1..Len(vis) :
                                /\ i < j
                                /\ vis[i] = Children(tree, p)[k]
                                /\ vis[j] = Children(tree, p)[l]
            /\ \A n \in ButtonNodes(tree) : EntriesOf(ReturnedButtons(c), tree, n) # {}
            /\ \A n \in TextAreaNodes(tree) : EntriesOf(ReturnedTextAreas(c), tree, n) # {}

\* A text area two levels down is returned, below a button that emitted,
\* itself below a root without role and box.
C4_Witness ==
    \E c \in DOMAIN calls :
        LET tree == calls[c].tree
        IN  /\ Returned(c)
            /\ Cardinality(Nodes(tree)) = 3
            /\ Depth2Chain(tree)
            /\ "role" \notin DOMAIN tree[Root]
            /\ ~HasBox(tree[Root])
            /\ Children(tree, Root)[1] \in ButtonNodes(tree)
            /\ Len(ReturnedButtons(c)) = 1
            /\ Len(ReturnedTextAreas(c)) = 1

\* The origin the tree carries, as the text reads.
HasOrigin(tree) == "absolute_position" \in DOMAIN tree[Root]

IsNumber(piece) == ParseFloat(piece).ok

\* The first two comma-separated pieces are there and are numbers.
FirstTwoAreNumbers(tree) ==
    IF ~HasOrigin(tree) THEN FALSE
    ELSE IF Len(Split(tree[Root].absolute_position, <<",">>)) < 2 THEN FALSE
    ELSE /\ IsNumber(Split(tree[Root].absolute_position, <<",">>)[1])
         /\ IsNumber(Split(tree[Root].absolute_position, <<",">>)[2])

\* The origin is two numbers with a comma between, and nothing more.
ExactlyTwoNumbers(tree) ==
    IF ~FirstTwoAreNumbers(tree) THEN FALSE
    ELSE Len(Split(tree[Root].absolute_position, <<",">>)) = 2

NothingVisited(c) ==
    /\ calls[c].visited = <<>>
    /\ calls[c].stack = <<>>
    /\ calls[c].window = <<>>
    /\ calls[c].pc # "start" => ReturnedButtons(c) = <<>> /\ ReturnedTextAreas(c) = <<>>

\* C5, as claimed: an origin that is not exactly two numbers makes
\* extract_elements fail before any node is visited.
C5_Original ==
    \A c \in DOMAIN calls :
        ~ExactlyTwoNumbers(calls[c].tree) =>
            calls[c].pc \in {"start", "origin", "raised"} /\ NothingVisited(c)

\* C5, amended: when the origin is missing, has fewer than two
\* comma-separated pieces, or one of its first two pieces is not a number,
\* extract_elements fails before any node is visited and returns no lists;
\* when it goes on, the window is the two numbers the first two pieces read,
\* never a default.
C5_BadOriginFailsBeforeTraversal ==
    \A c \in DOMAIN calls :
        /\ ~FirstTwoAreNumbers(calls[c].tree) =>
               calls[c].pc \in {"start", "origin", "raised"} /\ NothingVisited(c)
        /\ calls[c].pc \in {"traverse", "returned"} =>
               /\ FirstTwoAreNumbers(calls[c].tree)
               /\ IsSumOf(calls[c].window[1], 0, Split(calls[c].tree[Root].absolute_position, <<",">>)[1])
               /\ IsSumOf(calls[c].window[2], 0, Split(calls[c].tree[Root].absolute_position, <<",">>)[2])

\* A call has failed on an origin whose second piece is no number, with no
\* node visited.
C5_Witness ==
    \E c \in DOMAIN calls :
        /\ Raised(c)
        /\ calls[c].visited = <<>>
        /\ HasOrigin(calls[c].tree)
        /\ Len(Split(calls[c].tree[Root].absolute_position, <<",">>)) = 2
        /\ IsNumber(Split(calls[c].tree[Root].absolute_position, <<",">>)[1])

\* The nodes whose extraction cannot fail.
SoundButtonNodes(tree) == {n \in ButtonNodes(tree) : Len(tree[n].visible_bbox) = 4}

SoundTextAreaNodes(tree) == {n \in TextAreaNodes(tree) : Len(tree[n].visible_bbox) = 4}

\* What the caller of extract_elements gets: the lists, or nothing when the
\* call raised.
ResultButtons(c) == IF Returned(c) THEN ReturnedButtons(c) ELSE <<>>

ResultTextAreas(c) == IF Returned(c) THEN ReturnedTextAreas(c) ELSE <<>>

\* C6, as claimed: once a call on a tree with a sound origin is over, whether
\* or not the extraction of some node failed, the element of every other
\* qualifying node is in what it returns.
C6_FailureIsLocal ==
    \A c \in DOMAIN calls :
        (calls[c].pc \in {"returned", "raised"} /\ FirstTwoAreNumbers(calls[c].tree)) =>
            /\ \A n \in SoundButtonNodes(calls[c].tree) :
                   EntriesOf(ResultButtons(c), calls[c].tree, n) # {}
            /\ \A n \in SoundTextAreaNodes(calls[c].tree) :
                   EntriesOf(ResultTextAreas(c), calls[c].tree, n) # {}

IsIntegral(f) == f.num % f.den = 0

\* C7, as claimed: both coordinates of every returned center are integers.
C7_CentersAreIntegers ==
    \A c \in DOMAIN calls : Returned(c) =>
        \A list \in {ReturnedButtons(c), ReturnedTextAreas(c)} :
            \A i \in 1..Len(list) :
                IsIntegral(list[i].center[1]) /\ IsIntegral(list[i].center[2])

(***************************************************************************)
(* Properties of get_screen_buttons_textarea                               *)
(***************************************************************************)
\* The nine ids the docstring lists, lines 96-104; the last part is the name
\* after the last dot.
DocumentedNames ==
    {"Notes", "VoiceMemos", "Mail", "reminders", "Safari", "Maps", "Photos", "Music", "weather"}

InAllowList(bundle_id) ==
    /\ Len(bundle_id) = 3
    /\ bundle_id[1] = "com"
    /\ bundle_id[2] = "apple"
    /\ bundle_id[3] \in DocumentedNames

StepsInOrder == <<"open", "get_app_bundle", "get_tree_screenshot">>

\* C10: a bundle id outside the allow-list gets an error string and nothing
\* else happens, in any state: no launch, no tree acquisition, no
\* extraction.  The steps only happen for an allow-listed id, in the order
\* launch, tree acquisition, extraction.
C10_InvalidBundleDoesNothing ==
    /\ ~InAllowList(tool.bundle_id) =>
           /\ effects = <<>>
           /\ calls = <<>>
           /\ tool.pc \in {"check", "done"}
           /\ tool.pc = "done" => tool.result = InvalidBundleError
    /\ Len(effects) <= Len(StepsInOrder)
    /\ \A i \in 1..Len(effects) : effects[i].op = StepsInOrder[i]
    /\ calls # <<>> => Len(effects) = Len(StepsInOrder)

\* The call with an id that differs from an allow-listed one only in case
\* has returned the error.
C10_Witness ==
    /\ tool.pc = "done"
    /\ tool.bundle_id = <<"com", "apple", "notes">>
    /\ tool.result = InvalidBundleError

(***************************************************************************)
(* Properties of type_text                                                 *)
(***************************************************************************)
RECURSIVE Join(_, _)
Join(parts, sep) ==
    IF Len(parts) = 1 THEN parts[1]
    ELSE parts[1] \o sep \o Join(Tail(parts), sep)

Contains(s, sep) == \E i \in 1..Len(s) : MatchAt(s, sep, i)

\* The lines of a text: the pieces without a line break that give the text
\* back when joined by line breaks.
IsLinesOf(lines, text) ==
    /\ Len(lines) >= 1
    /\ \A k \in 1..Len(lines) : ~Contains(lines[k], LineBreak)
    /\ Join(lines, LineBreak) = text

Enters(ks) == Cardinality({k \in 1..Len(ks) : ks[k].op = "press"})

\* C8: when type_text returns Success, with the text split at every
\* backslash-n into n >= 1 lines, the keyboard calls made are: line 1, enter,
\* line 2, enter, ..., line n, and one more enter exactly when
\* press_enter_after is set; so n - 1 or n enters, none before the first line.
C8_TypeTextEvents ==
    (typing.pc = "done" /\ typing.result = "Success") =>
        LET n == Len(typing.lines)
        IN  /\ IsLinesOf(typing.lines, typing.text)
            /\ Len(keys) = IF typing.press_enter_after THEN 2 * n ELSE 2 * n - 1
            /\ \A k \in 1..n : keys[2 * k - 1] = [op |-> "typewrite", arg |-> typing.lines[k]]
            /\ \A k \in 1..Len(keys) : k % 2 = 0 => keys[k] = [op |-> "press", arg |-> EnterKey]
            /\ Enters(keys) = IF typing.press_enter_after THEN n ELSE n - 1

\* A text of three lines, the middle one empty, typed with the flag set:
\* three enters.
C8_Witness ==
    /\ typing.pc = "done"
    /\ typing.result = "Success"
    /\ typing.press_enter_after
    /\ typing.text = <<"\\", "n", "\\", "n">>
    /\ Enters(keys) = 3

(***************************************************************************)
(* Properties of interleaved and repeated extractions                      *)
(***************************************************************************)
Entered(c) == calls[c].pc # "start"

\* C9: two calls never name the same list, a call's lists never hold more
\* entries than the nodes it has visited account for, and a returned call's
\* lists hold one entry for each qualifying node of its own tree and no
\* other entry, whatever the other calls did before, meanwhile or after.
C9_CallsDoNotInterfere ==
    \A c \in DOMAIN calls :
        /\ \A d \in DOMAIN calls :
               (c # d /\ Entered(c) /\ Entered(d)) =>
                   {calls[c].buttons, calls[c].text_areas}
                       \cap {calls[d].buttons, calls[d].text_areas} = {}
        /\ Entered(c) =>
               Len(heap[calls[c].buttons]) + Len(heap[calls[c].text_areas])
                   <= Len(calls[c].visited)
        /\ Returned(c) =>
               /\ Len(ReturnedButtons(c)) = Cardinality(ButtonNodes(calls[c].tree))
               /\ Len(ReturnedTextAreas(c)) = Cardinality(TextAreaNodes(calls[c].tree))
               /\ \A n \in ButtonNodes(calls[c].tree) :
                      Cardinality(EntriesOf(ReturnedButtons(c), calls[c].tree, n)) = 1
               /\ \A n \in TextAreaNodes(calls[c].tree) :
                      Cardinality(EntriesOf(ReturnedTextAreas(c), calls[c].tree, n)) = 1

\* One call has returned its buttons while another, entered before the
\* first returned or after, is in the middle of its own tree of buttons.
C9_Witness ==
    \E c, d \in DOMAIN calls :
        /\ c # d
        /\ Returned(c)
        /\ ReturnedButtons(c) # <<>>
        /\ calls[d].pc = "traverse"
        /\ calls[d].stack # <<>>
        /\ heap[calls[d].buttons] # <<>>

====
